---- MODULE Spec2Model ----
(***************************************************************************)
(* Movie search engine: the search orchestration of search_engine.py, the  *)
(* catalog (PostgreSQL) and vector (Weaviate) stores it writes, the query  *)
(* classifier of helpers/model_loader.py and the event bus of event_bus.py *)
(* that sequences bulk ingestion.                                          *)
(***************************************************************************)
EXTENDS Integers, Sequences, FiniteSets, TLC

(***************************************************************************)
(* Bounds of the model.                                                    *)
(***************************************************************************)
\* top-level operations (run_search calls, publishes) of one run
MaxOps == 2
\* longest title list the LLM hands to title resolution
MaxTitles == 2

(***************************************************************************)
(* Python values.  An optional value (None or x) is a sequence of length   *)
(* 0 or 1; a str that the code slices is a sequence of characters.         *)
(***************************************************************************)
None == <<>>
Some(x) == <<x>>
Truthy(o) == o # None /\ o[1] # 0

DigitChars == {"0", "1", "2", "3", "4", "5", "6", "7", "8", "9"}
DigitVal(c) ==
    CASE c = "0" -> 0 [] c = "1" -> 1 [] c = "2" -> 2 [] c = "3" -> 3
      [] c = "4" -> 4 [] c = "5" -> 5 [] c = "6" -> 6 [] c = "7" -> 7
      [] c = "8" -> 8 [] c = "9" -> 9

\* int(s): Some(value) or None for ValueError, on the slices the code takes
PyInt(s) ==
    IF s # <<>> /\ \A k \in 1..Len(s) : s[k] \in DigitChars
    THEN LET RECURSIVE val(_)
             val(k) == IF k = 0 THEN 0 ELSE 10 * val(k - 1) + DigitVal(s[k])
         IN  Some(val(Len(s)))
    ELSE None

\* s[:n]
PySlice(s, n) == SubSeq(s, 1, IF Len(s) < n THEN Len(s) ELSE n)

\* str(row[6]) of a DATE column: the ISO text, or "None" for NULL
StrNone == <<"N", "o", "n", "e">>
PyStr(d) == IF d = None THEN StrNone ELSE d[1]

\* str.lower, on the words the model uses
Lower(t) ==
    CASE t = "Alpha" -> "alpha" [] t = "Beta" -> "beta" [] t = "Gamma" -> "gamma"
      [] t = "Delta" -> "delta" [] t = "Epsilon" -> "epsilon"
      [] t = "Movies" -> "movies" [] t = "By" -> "by" [] t = "Nolan" -> "nolan"
      [] OTHER -> t

(***************************************************************************)
(* The Metadata Provider (TMDB): the records it serves.  A record is the   *)
(* JSON dict of the API; a key the dict lacks is absent from the record.   *)
(***************************************************************************)
Date1998 == <<"1", "9", "9", "8", "-", "0", "5", "-", "0", "1">>
Date2005 == <<"2", "0", "0", "5", "-", "0", "7", "-", "1", "5">>
Date2012 == <<"2", "0", "1", "2", "-", "1", "1", "-", "3", "0">>

TmdbAlpha == [id |-> 1, title |-> "Alpha", overview |-> "a heist", popularity |-> 9,
              vote_average |-> 7, release_date |-> Date1998]
TmdbBeta == [id |-> 2, title |-> "Beta", overview |-> "a voyage", popularity |-> 5,
             vote_average |-> 6, release_date |-> Date2005]
TmdbGamma == [id |-> 3, title |-> "Gamma", overview |-> "a trial", popularity |-> 7,
              vote_average |-> 8, release_date |-> Date2012]
\* no release date in the dict
TmdbDelta == [id |-> 4, title |-> "Delta", overview |-> "a storm", popularity |-> 3,
              vote_average |-> 5]
\* an empty overview
TmdbEpsilon == [id |-> 5, title |-> "Epsilon", overview |-> "", popularity |-> 2,
                vote_average |-> 4, release_date |-> Date2005]
\* no overview key
TmdbBad == [id |-> 6, title |-> "Zeta", popularity |-> 1, vote_average |-> 3]

\* movie 1 as the provider serves it once its popularity has changed
TmdbAlphaLater == [TmdbAlpha EXCEPT !.popularity = 10]

\* what the search endpoint answers for a query text (best match first)
TmdbSearchResults(q) ==
    CASE q = "alpha" -> <<TmdbAlpha>>
      [] q = "alfa" -> <<TmdbAlphaLater, TmdbBeta>>
      [] q = "epsilon" -> <<TmdbEpsilon>>
      [] q = "zeta" -> <<TmdbBad>>
      [] OTHER -> <<>>

\* the pages the discover endpoint may answer
DiscoverPages == { <<TmdbAlpha, TmdbBeta, TmdbGamma, TmdbDelta>>,
                   <<TmdbBad, TmdbEpsilon>> }

\* the query texts of the requests, and the titles the LLM may generate
Queries == {"alfa", "zeta"}
GenTitles == {"alpha", "alfa", "epsilon"}
\* the lists the LLM may answer: distinct titles, in any order, and a list that names
\* a movie whose provider record lacks its overview
TitleLists ==
    UNION { {l \in [1..n -> GenTitles] : \A j, k \in 1..n : j # k => l[j] # l[k]} :
              n \in 1..MaxTitles }
    \cup { <<"zeta", "epsilon">> }

\* SearchConfig(start_year, end_year)
NoConfig == [start_year |-> None, end_year |-> None]
Years2000To2010 == [start_year |-> Some(2000), end_year |-> Some(2010)]
Configs == { NoConfig, Years2000To2010,
             [start_year |-> Some(2005), end_year |-> None],
             [start_year |-> None, end_year |-> Some(2005)] }

\* the requests served: search_query, search_config, enrich_from_tmdb, use_gemini
Requests ==
    { [query |-> q, cfg |-> c, enrich |-> FALSE, gemini |-> TRUE] :
        q \in Queries, c \in Configs }
    \cup { [query |-> q, cfg |-> NoConfig, enrich |-> TRUE, gemini |-> g] :
             q \in Queries, g \in BOOLEAN }
    \cup { [query |-> "alfa", cfg |-> Years2000To2010, enrich |-> TRUE, gemini |-> TRUE] }


(***************************************************************************)
(* Movie objects and catalog rows.                                         *)
(***************************************************************************)
RequiredKeys == {"id", "title", "overview", "popularity", "vote_average"}

\* Movie(id=tmdb_dict['id'], ...) raises KeyError when a required key is missing
WellFormed(d) == RequiredKeys \subseteq DOMAIN d

\* the Movie built from a provider dict; release_date is tmdb_dict.get(...)
MovieFromTmdb(d) ==
    [id |-> d.id, title |-> d.title, overview |-> d.overview,
     popularity |-> d.popularity,
     release_date |-> IF "release_date" \in DOMAIN d THEN Some(d.release_date) ELSE None,
     tmdb_id |-> None]

\* the row an upsert writes for a movie, keyed by the provider's id
RowOf(m) ==
    [tmdb_id |-> m.id, title |-> m.title, overview |-> m.overview,
     popularity |-> m.popularity, release_date |-> m.release_date]

\* the Movie read back from a row: release_date = str(row[6])
MovieFromRow(r) ==
    [id |-> r.tmdb_id, title |-> r.title, overview |-> r.overview,
     popularity |-> r.popularity, release_date |-> Some(PyStr(r.release_date)),
     tmdb_id |-> Some(r.tmdb_id)]

\* an INSERT that adds a row beside the one the table holds for the id
Upsert_Insert(cat, m) == cat \cup {RowOf(m)}

\* INSERT ... ON CONFLICT (tmdb_id) DO UPDATE of one movie
Upsert(cat, m) == {r \in cat : r.tmdb_id # m.id} \cup {RowOf(m)}

\* the statements of one transaction, in list order
RECURSIVE UpsertBatch(_, _)
UpsertBatch(cat, batch) ==
    IF batch = <<>> THEN cat
    ELSE UpsertBatch(Upsert(cat, Head(batch)), Tail(batch))

\* SELECT * FROM movies WHERE tmdb_id IN (...), as Movie objects
MoviesByIds(cat, ids) == {MovieFromRow(r) : r \in {x \in cat : x.tmdb_id \in ids}}

\* lookup by title, case-insensitive: Some(movie) or None
MovieByTitle(cat, t) ==
    LET rows == {r \in cat : Lower(r.title) = Lower(t)}
    IN  IF rows = {} THEN None ELSE Some(MovieFromRow(CHOOSE r \in rows : TRUE))

CatalogIds(cat) == {r.tmdb_id : r \in cat}

(***************************************************************************)
(* The Vector Index: the objects of the "Movie" collection.  An object     *)
(* holds a movie_id and the embedding of that movie's overview, so the     *)
(* collection is the bag of the movie ids of its objects.                  *)
(***************************************************************************)
MovieIds == 1..6
VectorLimit == 10

EmptyIndex == [id \in MovieIds |-> 0]

\* the movies by distance of their embedding from a query's, nearest first
Ranking(q) == IF q = "zeta" THEN <<3, 4, 2, 1, 5, 6>> ELSE <<1, 2, 4, 3, 5, 6>>
Distance(q, id) == CHOOSE k \in 1..Len(Ranking(q)) : Ranking(q)[k] = id

\* the objects of the collection by distance from the query, nearest first
RECURSIVE RankedObjects(_, _, _)
RankedObjects(q, vi, k) ==
    IF k > Len(Ranking(q)) THEN <<>>
    ELSE [j \in 1..vi[Ranking(q)[k]] |-> Ranking(q)[k]] \o RankedObjects(q, vi, k + 1)

\* near_vector(limit=10): the nearest objects, nearest first
NearVector(q, vi) ==
    LET r == RankedObjects(q, vi, 1)
        n == IF Len(r) < VectorLimit THEN Len(r) ELSE VectorLimit
    IN  [k \in 1..n |-> [movie_id |-> r[k], distance |-> Distance(q, r[k])]]

\* valid_movies = [movie for movie in movies_data if movie.overview]
ValidMovies(batch) == SelectSeq(batch, LAMBDA m : m.overview # "")

\* batch.add_object(properties={"movie_id": movie.id}) for each valid movie
AddObjects(vi, batch) ==
    LET v == ValidMovies(batch)
    IN  [id \in MovieIds |-> vi[id] + Cardinality({k \in 1..Len(v) : v[k].id = id})]

(***************************************************************************)
(* run_search: the year filter and the assembly of weaviate_results.       *)
(***************************************************************************)
\* a filter whose bounds exclude the bound years themselves
YearMatches_Exclusive(y, cfg) ==
    /\ ~(Truthy(cfg.start_year) /\ y <= cfg.start_year[1])
    /\ ~(Truthy(cfg.end_year) /\ y >= cfg.end_year[1])

YearMatches(y, cfg) ==
    /\ ~(Truthy(cfg.start_year) /\ y < cfg.start_year[1])
    /\ ~(Truthy(cfg.end_year) /\ y > cfg.end_year[1])

\* the body of the filter loop for one movie
KeepMovie(m, cfg) ==
    /\ m.release_date # None
    /\ Len(m.release_date[1]) >= 4
    /\ LET y == PyInt(PySlice(m.release_date[1], 4))
       IN  y # None /\ YearMatches(y[1], cfg)

FilterByYear(ms, cfg) ==
    IF Truthy(cfg.start_year) \/ Truthy(cfg.end_year)
    THEN {m \in ms : KeepMovie(m, cfg)}
    ELSE ms

ResultEntry(m, hit) ==
    [title |-> m.title, overview |-> m.overview, distance |-> hit.distance,
     release_date |-> m.release_date]

\* a loop that puts each entry in front of the entries built so far
RECURSIVE ProcessHits_Reversed(_, _)
ProcessHits_Reversed(hits, ms) ==
    IF hits = <<>> THEN <<>>
    ELSE LET h == Head(hits)
             found == {m \in ms : m.id = h.movie_id}
         IN  ProcessHits_Reversed(Tail(hits), ms)
             \o (IF found = {} THEN <<>>
                 ELSE <<ResultEntry(CHOOSE m \in found : TRUE, h)>>)

\* one entry per hit whose movie_id is a key of full_movies_dict, in hit order
RECURSIVE ProcessHits(_, _)
ProcessHits(hits, ms) ==
    IF hits = <<>> THEN <<>>
    ELSE LET h == Head(hits)
             found == {m \in ms : m.id = h.movie_id}
         IN  (IF found = {} THEN <<>>
              ELSE <<ResultEntry(CHOOSE m \in found : TRUE, h)>>)
             \o ProcessHits(Tail(hits), ms)


(***************************************************************************)
(* State.                                                                  *)
(***************************************************************************)
VARIABLES
    saveTakesGenreMap, \* whether save_movies_to_db accepts the genre map its callers pass
    catalog,           \* the rows of the movies table
    vindex,            \* the Weaviate collection: per movie id, the objects holding it
    rs,                \* the run_search call of each worker thread: its position and locals
    ops,               \* top-level operations started so far
    wlog,              \* the store writes of the operations in progress, by batch
    persists,          \* per movie id, the rows title resolution has upserted for it
    handlers,          \* EventBus._handlers: topic -> handlers in subscription order
    resubscribed,      \* times subscribe_to_event_bus ran after the constructor
    stack,             \* the publish calls in progress, innermost last
    bus,               \* what the top-level publish in progress has delivered so far
    pq,                \* the parse_user_query_with_gemini call in progress
    agg,               \* the executor's batch: requests by key, results by key, failed keys
    db                 \* the PostgresHelper operation in progress, statement by statement

vars == <<saveTakesGenreMap, catalog, vindex, rs, ops, wlog, persists, handlers,
          resubscribed, stack, bus, pq, agg, db>>

\* the threads that run run_search: one per operation
Workers == 1..MaxOps

IdleFrame ==
    [pc |-> "idle", query |-> "", cfg |-> NoConfig, enrich |-> FALSE, gemini |-> FALSE,
     hits |-> <<>>, wres |-> <<>>, titles |-> <<>>, i |-> 0, all |-> <<>>,
     newly |-> <<>>, tmdb |-> <<>>,
     \* what the call has done so far
     vsearch |-> "none", lookup |-> "none", llm |-> "none", cached |-> <<>>,
     fetched |-> <<>>, dbout |-> "none", vecout |-> "none", tok |-> 0,
     key |-> 0, cat0 |-> {}, vec0 |-> EmptyIndex]

EmptyLog == [next |-> 1, dbOk |-> {}, dbFail |-> {}, vec |-> {}]

AllIdle == \A w \in Workers : rs[w].pc = "idle"

\* the result run_search returns
Result(f) == [tmdb_results |-> f.tmdb, weaviate_results |-> f.wres]

(***************************************************************************)
(* run_search, one step per blocking call.                                 *)
(***************************************************************************)
\* a run_search that enriches whatever the flag says
AfterVectorPart_Always(f) == "titles"

\* after the vector part: the enrichment gate
AfterVectorPart(f) == IF f.enrich THEN "titles" ELSE "done"

\* a call that runs its enrichment before it searches
EnterSearch_EnrichFirst(r) ==
    [IdleFrame EXCEPT !.pc = IF r.enrich THEN "titles" ELSE "vsearch",
                      !.query = r.query, !.cfg = r.cfg,
                      !.enrich = r.enrich, !.gemini = r.gemini, !.key = ops + 1,
                      !.cat0 = catalog, !.vec0 = vindex]

\* the frame of a call of run_search on request r
EnterSearch(r) ==
    [IdleFrame EXCEPT !.pc = "vsearch", !.query = r.query, !.cfg = r.cfg,
                      !.enrich = r.enrich, !.gemini = r.gemini, !.key = ops + 1,
                      !.cat0 = catalog, !.vec0 = vindex]

\* a request enters run_search
StartSearch(w) ==
    /\ rs[w].pc = "idle"
    /\ stack = <<>>
    /\ ops < MaxOps
    /\ \E r \in Requests : rs' = [rs EXCEPT ![w] = EnterSearch(r)]
    /\ ops' = ops + 1
    /\ UNCHANGED <<db, agg, pq, saveTakesGenreMap, catalog, vindex, wlog, persists, handlers,
                   resubscribed, stack, bus>>

\* weaviate_results = search_weaviate_by_vector(search_query); [] on any failure
VectorSearch(w) ==
    /\ rs[w].pc = "vsearch"
    /\ \E out \in {"ok", "failed"} :
         LET hits == IF out = "ok" THEN NearVector(rs[w].query, vindex) ELSE <<>>
         IN  rs' = [rs EXCEPT ![w].hits = hits, ![w].vsearch = out,
                              ![w].pc = IF hits # <<>> THEN "lookup"
                                        ELSE AfterVectorPart(rs[w])]
    /\ UNCHANGED <<db, agg, pq, saveTakesGenreMap, catalog, vindex, ops, wlog, persists, handlers,
                   resubscribed, stack, bus>>

\* get_movies_by_ids_from_db, the year filter and the result entries
CatalogLookup(w) ==
    /\ rs[w].pc = "lookup"
    /\ \E out \in {"ok", "error", "exit"} :
         LET f == rs[w]
             ids == {f.hits[k].movie_id : k \in 1..Len(f.hits)}
             full == IF out = "ok" THEN MoviesByIds(catalog, ids) ELSE {}
         IN  rs' = [rs EXCEPT
                      ![w].lookup = out,
                      ![w].wres = IF out = "exit" THEN <<>>
                                  ELSE ProcessHits(f.hits, FilterByYear(full, f.cfg)),
                      ![w].pc = IF out = "exit" THEN "exited" ELSE AfterVectorPart(f)]
    /\ UNCHANGED <<db, agg, pq, saveTakesGenreMap, catalog, vindex, ops, wlog, persists, handlers,
                   resubscribed, stack, bus>>

\* an enrichment that hands on whatever the LLM gave, or nothing
TitlesFor_NoFallback(f, out, generated) == IF out = "list" THEN generated ELSE <<>>

\* the titles _run_tmdb_enrichment_search hands on, by what the LLM did
TitlesFor(f, out, generated) == IF out = "list" THEN generated ELSE <<f.query>>

LlmOutcomes(f) == IF f.gemini THEN {"list", "empty", "raised"} ELSE {"skipped"}

GenerateTitles(w) ==
    /\ rs[w].pc = "titles"
    /\ \E out \in LlmOutcomes(rs[w]), generated \in TitleLists :
         /\ out # "list" => generated = CHOOSE l \in TitleLists : TRUE
         /\ rs' = [rs EXCEPT ![w].llm = out,
                             ![w].titles = TitlesFor(rs[w], out, generated),
                             ![w].i = 1, ![w].pc = "resolve"]
    /\ UNCHANGED <<db, agg, pq, saveTakesGenreMap, catalog, vindex, ops, wlog, persists, handlers,
                   resubscribed, stack, bus>>

\* search_movies_from_tmdb: the result list, [] on a request failure
TmdbSearch(t, out) == IF out = "ok" THEN TmdbSearchResults(t) ELSE <<>>

\* a loop that asks the provider again for a title the catalog holds, and re-saves it
ResolveCached_Refetch(f, t, m) ==
    [f EXCEPT !.all = Append(f.all, m),
              !.fetched = Append(f.fetched, [title |-> t, out |-> "ok",
                                             results |-> TmdbSearchResults(t)]),
              !.newly = Append(f.newly, m)]

\* one turn of the loop of _check_and_fetch_movies on a title found in the catalog
ResolveCached(f, t, m) ==
    [f EXCEPT !.all = Append(f.all, m), !.cached = Append(f.cached, t)]

\* a loop that puts a fetched record at the front of the list it returns
ResolveFetched_Front(f, t, out, results) ==
    LET g == [f EXCEPT !.fetched = Append(f.fetched, [title |-> t, out |-> out,
                                                       results |-> results])]
    IN  IF results # <<>> /\ WellFormed(results[1])
        THEN [g EXCEPT !.all = <<MovieFromTmdb(results[1])>> \o f.all,
                       !.newly = Append(f.newly, MovieFromTmdb(results[1]))]
        ELSE g

\* one turn of the loop on a title the catalog lacks, given the provider's answer
ResolveFetched(f, t, out, results) ==
    LET g == [f EXCEPT !.fetched = Append(f.fetched, [title |-> t, out |-> out,
                                                       results |-> results])]
    IN  IF results # <<>> /\ WellFormed(results[1])
        THEN [g EXCEPT !.all = Append(f.all, MovieFromTmdb(results[1])),
                       !.newly = Append(f.newly, MovieFromTmdb(results[1]))]
        ELSE g

\* a return that applies the year bounds to the provider list as well
AfterTurn_YearFiltered(f) ==
    IF f.i < Len(f.titles) THEN [f EXCEPT !.i = f.i + 1]
    ELSE IF f.newly # <<>> THEN [f EXCEPT !.i = f.i + 1, !.pc = "save_db"]
    ELSE [f EXCEPT !.i = f.i + 1, !.pc = "done",
                   !.tmdb = SelectSeq(f.all, LAMBDA m :
                               (Truthy(f.cfg.start_year) \/ Truthy(f.cfg.end_year))
                                  => KeepMovie(m, f.cfg))]

\* a return that leaves out of the provider list the movies the vector list holds
AfterTurn_Merged(f) ==
    IF f.i < Len(f.titles) THEN [f EXCEPT !.i = f.i + 1]
    ELSE IF f.newly # <<>> THEN [f EXCEPT !.i = f.i + 1, !.pc = "save_db"]
    ELSE [f EXCEPT !.i = f.i + 1, !.pc = "done",
                   !.tmdb = SelectSeq(f.all, LAMBDA m :
                               \A k \in 1..Len(f.wres) : f.wres[k].title # m.title)]

\* where the loop goes after a turn
AfterTurn(f) ==
    IF f.i < Len(f.titles) THEN [f EXCEPT !.i = f.i + 1]
    ELSE IF f.newly # <<>> THEN [f EXCEPT !.i = f.i + 1, !.pc = "save_db"]
    ELSE [f EXCEPT !.i = f.i + 1, !.pc = "done", !.tmdb = f.all]

ResolveTitle(w) ==
    /\ rs[w].pc = "resolve"
    /\ LET f == rs[w]
           t == f.titles[f.i]
           m == MovieByTitle(catalog, t)
       IN  IF m # None
           THEN rs' = [rs EXCEPT ![w] = AfterTurn(ResolveCached(f, t, m[1]))]
           ELSE \E out \in {"ok", "failed"} :
                  rs' = [rs EXCEPT ![w] = AfterTurn(ResolveFetched(f, t, out, TmdbSearch(t, out)))]
    /\ UNCHANGED <<db, agg, pq, saveTakesGenreMap, catalog, vindex, ops, wlog, persists, handlers,
                   resubscribed, stack, bus>>

\* how a call of save_movies_to_db(movies, genre_map) can end
SaveOutcomes == IF saveTakesGenreMap THEN {"ok", "error", "exit"} ELSE {"typeerror"}

\* a save whose failure leaves the rows written so far in the table
CatalogAfterSave_NoRollback(cat, batch, out) == UpsertBatch(cat, batch)

\* the catalog after save_movies_to_db: the whole batch, or nothing (rollback)
CatalogAfterSave(cat, batch, out) == IF out = "ok" THEN UpsertBatch(cat, batch) ELSE cat

\* a loop that goes on to the vector write whatever the catalog write did
AfterCatalogSave_IgnoreFailure(out) == IF out = "exit" THEN "exited" ELSE "save_vec"

\* where _check_and_fetch_movies goes after the catalog write
AfterCatalogSave(out) ==
    CASE out = "ok" -> "save_vec"
      [] out = "exit" -> "exited"
      [] OTHER -> "raised"

LogDb(l, out) ==
    [l EXCEPT !.next = l.next + 1,
              !.dbOk = IF out = "ok" THEN l.dbOk \cup {l.next} ELSE l.dbOk,
              !.dbFail = IF out # "ok" THEN l.dbFail \cup {l.next} ELSE l.dbFail]

\* the upserts of provider-fetched rows so far, per movie id (counted up to MaxCount)
MaxCount == 2
Persisted(p, batch) ==
    [id \in MovieIds |->
       LET n == p[id] + Cardinality({k \in 1..Len(batch) : batch[k].id = id})
       IN  IF n > MaxCount THEN MaxCount ELSE n]

SaveCatalog(w) ==
    /\ rs[w].pc = "save_db"
    /\ \E out \in SaveOutcomes :
         /\ catalog' = CatalogAfterSave(catalog, rs[w].newly, out)
         /\ rs' = [rs EXCEPT ![w].dbout = out, ![w].tok = wlog.next,
                             ![w].pc = AfterCatalogSave(out)]
         /\ wlog' = LogDb(wlog, out)
         /\ persists' = IF out = "ok" THEN Persisted(persists, rs[w].newly) ELSE persists
    /\ UNCHANGED <<db, agg, pq, saveTakesGenreMap, vindex, ops, handlers, resubscribed, stack, bus>>

\* how save_embeddings_to_weaviate can end: objects added, no embeddings, sys.exit(1)
VectorOutcomes == {"ok", "no_embeddings", "exit"}

IndexAfterSave(vi, batch, delete, out) ==
    CASE out = "ok" -> AddObjects(IF delete THEN EmptyIndex ELSE vi, batch)
      [] out = "no_embeddings" -> IF delete THEN EmptyIndex ELSE vi
      [] OTHER -> vi

AfterVectorSave(out) == IF out = "exit" THEN "exited" ELSE "done"

SaveVectors(w) ==
    /\ rs[w].pc = "save_vec"
    /\ \E out \in VectorOutcomes :
         /\ vindex' = IndexAfterSave(vindex, rs[w].newly, FALSE, out)
         /\ rs' = [rs EXCEPT ![w].vecout = out, ![w].pc = AfterVectorSave(out),
                             ![w].tmdb = IF out = "exit" THEN <<>> ELSE rs[w].all]
         /\ wlog' = IF out = "ok" THEN [wlog EXCEPT !.vec = wlog.vec \cup {rs[w].tok}]
                    ELSE wlog
    /\ UNCHANGED <<db, agg, pq, saveTakesGenreMap, catalog, ops, persists, handlers, resubscribed,
                   stack, bus>>

\* the call has returned, raised to its caller, or ended the thread with SystemExit
Finished(f) == f.pc \in {"done", "raised", "exited"}

ReturnSearch(w) ==
    /\ Finished(rs[w])
    /\ rs' = [rs EXCEPT ![w] = IdleFrame]
    /\ wlog' = IF \A v \in Workers \ {w} : rs[v].pc = "idle" THEN EmptyLog ELSE wlog
    /\ UNCHANGED <<db, agg, pq, saveTakesGenreMap, catalog, vindex, ops, persists, handlers,
                   resubscribed, stack, bus>>


(***************************************************************************)
(* EventBus and the ingestion handlers of SearchEngine.                    *)
(***************************************************************************)
NoHandlers == [t \in {} |-> <<>>]

\* EventBus.subscribe: self._handlers[event_name].append(handler)
Subscribe(h, topic, handler) ==
    IF topic \in DOMAIN h
    THEN [h EXCEPT ![topic] = Append(h[topic], handler)]
    ELSE h @@ (topic :> <<handler>>)

\* SearchEngine.subscribe_to_event_bus
SubscribeToEventBus(h) ==
    Subscribe(Subscribe(Subscribe(Subscribe(Subscribe(h,
        "start_ingestion", "handle_start_ingestion_event"),
        "movies_fetched_for_ingestion", "handle_movies_fetched_event"),
        "sqlite_data_saved", "handle_sqlite_data_saved_event"),
        "ingestion_completed", "handle_ingestion_completed_event"),
        "start_search", "run_search")

\* the handlers publish would call for a topic: if event_name in self._handlers
HandlersOf(h, topic) == IF topic \in DOMAIN h THEN h[topic] ELSE <<>>

\* the keyword parameters of each handler, and those without a default
Params(handler) ==
    CASE handler = "handle_start_ingestion_event" -> {"delete_weaviate_collection"}
      [] handler = "handle_movies_fetched_event" ->
           {"movies_data_dicts", "genre_map", "delete_weaviate_collection"}
      [] handler = "handle_sqlite_data_saved_event" ->
           {"movies_data", "delete_weaviate_collection"}
      [] handler = "handle_ingestion_completed_event" -> {}
      [] OTHER -> {"search_query", "search_config", "enrich_from_tmdb", "use_gemini"}

Required(handler) ==
    CASE handler = "handle_start_ingestion_event" -> {}
      [] handler = "run_search" -> {"search_query"}
      [] OTHER -> Params(handler)

\* handler(**kwargs) binds, or raises TypeError
Accepts(handler, kwargs) ==
    Required(handler) \subseteq DOMAIN kwargs /\ DOMAIN kwargs \subseteq Params(handler)

NoKwargs == [k \in {} |-> 0]

\* the events the program's entry points publish
TopEvents ==
    { [topic |-> "start_ingestion", kwargs |-> [delete_weaviate_collection |-> b]] :
        b \in BOOLEAN }
    \cup { [topic |-> "start_ingestion", kwargs |-> [page |-> 2]],
           [topic |-> "ingestion_completed", kwargs |-> NoKwargs],
           [topic |-> "ingestion_completed", kwargs |-> [page |-> 2]],
           [topic |-> "reindex", kwargs |-> NoKwargs] }

IdleBus == [state |-> "idle", log |-> <<>>, pubs |-> <<>>]

\* the publish call on top of the stack, and the handler it is about to call
Top == stack[Len(stack)]
TopHandlers == HandlersOf(handlers, Top.topic)
Delivering(handler) ==
    /\ stack # <<>>
    /\ Top.idx <= Len(TopHandlers)
    /\ TopHandlers[Top.idx] = handler

\* a loop that skips the handler after the one that just ran
Advance_Skip(st) == [st EXCEPT ![Len(st)].idx = st[Len(st)].idx + 2]

\* the loop of publish moves to its next handler
Advance(st) == [st EXCEPT ![Len(st)].idx = st[Len(st)].idx + 1]

\* a publish call starts: its record, and its frame on the stack
PubRecord(topic, parent, by) ==
    [topic |-> topic, n |-> Len(HandlersOf(handlers, topic)), parent |-> parent,
     by |-> by, state |-> "running"]
Frame(b, topic, kwargs, tok) ==
    [pub |-> Len(b.pubs) + 1, topic |-> topic, kwargs |-> kwargs, idx |-> 1, tok |-> tok]

Logged(b, result) ==
    [b EXCEPT !.log = Append(b.log, [pub |-> Top.pub, idx |-> Top.idx,
                                       handler |-> TopHandlers[Top.idx],
                                       kwargs |-> Top.kwargs,
                                       result |-> result])]

\* a loop that stops delivering at the first handler whose TypeError it caught
Returned_Break(result) ==
    /\ stack' = [stack EXCEPT ![Len(stack)].idx =
                    IF result = "type_error" THEN Len(TopHandlers) + 1 ELSE Top.idx + 1]
    /\ bus' = Logged(bus, result)

\* the handler returned (or its TypeError was caught): on to the next handler
Returned(result) ==
    /\ stack' = Advance(stack)
    /\ bus' = Logged(bus, result)

\* the handler published the next event as its last statement
Published(topic, kwargs, tok) ==
    /\ stack' = Append(Advance(stack), Frame(bus, topic, kwargs, tok))
    /\ bus' = [Logged(bus, "ok") EXCEPT !.pubs = Append(bus.pubs, PubRecord(topic, Top.pub, Top.idx))]

\* a publish that catches whatever a handler raises
Propagated_Caught(result) == Returned(result)

\* the handler raised past every publish in progress, up to the publisher
Propagated(result) ==
    /\ stack' = <<>>
    /\ bus' = [Logged(bus, result) EXCEPT
                 !.state = result,
                 !.pubs = [k \in 1..Len(bus.pubs) |->
                             IF bus.pubs[k].state = "running"
                             THEN [bus.pubs[k] EXCEPT !.state = "aborted"]
                             ELSE bus.pubs[k]]]

\* subscribe_to_event_bus called again (flask_app's main block)
ResubscribeCalls == 1
Resubscribe ==
    /\ AllIdle /\ stack = <<>> /\ bus.state = "idle"
    /\ ops = 0
    /\ resubscribed < ResubscribeCalls
    /\ resubscribed' = resubscribed + 1
    /\ handlers' = SubscribeToEventBus(handlers)
    /\ UNCHANGED <<db, agg, pq, saveTakesGenreMap, catalog, vindex, rs, ops, wlog, persists, stack, bus>>

\* event_bus.publish(topic, **kwargs) from an entry point
Publish ==
    /\ AllIdle /\ stack = <<>> /\ bus.state = "idle"
    /\ ops < MaxOps
    /\ \E ev \in TopEvents :
         /\ stack' = <<Frame(IdleBus, ev.topic, ev.kwargs, 0)>>
         /\ bus' = [IdleBus EXCEPT !.state = "running",
                                   !.pubs = <<PubRecord(ev.topic, 0, 0)>>]
    /\ ops' = ops + 1
    /\ UNCHANGED <<db, agg, pq, saveTakesGenreMap, catalog, vindex, rs, wlog, persists, handlers,
                   resubscribed>>

\* handler(**kwargs) raises TypeError for the payload; publish catches it
RejectPayload ==
    /\ stack # <<>>
    /\ Top.idx <= Len(TopHandlers)
    /\ ~Accepts(TopHandlers[Top.idx], Top.kwargs)
    /\ Returned("type_error")
    /\ UNCHANGED <<db, agg, pq, saveTakesGenreMap, catalog, vindex, rs, ops, wlog, persists, handlers,
                   resubscribed>>

\* fetch_movies_from_tmdb(): a page, or [] on a request failure
FetchedPages == DiscoverPages \cup {<<>>}

HandleStartIngestion ==
    /\ Delivering("handle_start_ingestion_event")
    /\ Accepts("handle_start_ingestion_event", Top.kwargs)
    /\ \E page \in FetchedPages :
         IF page = <<>>
         THEN Returned("ok")
         ELSE Published("movies_fetched_for_ingestion",
                        [movies_data_dicts |-> page, genre_map |-> "genres",
                         delete_weaviate_collection |->
                            IF "delete_weaviate_collection" \in DOMAIN Top.kwargs
                            THEN Top.kwargs.delete_weaviate_collection ELSE FALSE],
                        0)
    /\ UNCHANGED <<db, agg, pq, saveTakesGenreMap, catalog, vindex, rs, ops, wlog, persists, handlers,
                   resubscribed>>

\* the Movie objects of a page; a dict missing a required key is skipped
RECURSIVE MovieObjects(_)
MovieObjects(dicts) ==
    IF dicts = <<>> THEN <<>>
    ELSE (IF WellFormed(Head(dicts)) THEN <<MovieFromTmdb(Head(dicts))>> ELSE <<>>)
         \o MovieObjects(Tail(dicts))

HandleMoviesFetched ==
    /\ Delivering("handle_movies_fetched_event")
    /\ Accepts("handle_movies_fetched_event", Top.kwargs)
    /\ \E out \in SaveOutcomes :
         LET objs == MovieObjects(Top.kwargs.movies_data_dicts)
         IN  /\ catalog' = CatalogAfterSave(catalog, objs, out)
             /\ wlog' = LogDb(wlog, out)
             /\ CASE out = "ok" ->
                       Published("sqlite_data_saved",
                                 [movies_data |-> objs,
                                  delete_weaviate_collection |->
                                     Top.kwargs.delete_weaviate_collection],
                                 wlog.next)
                  [] out = "typeerror" -> Returned("type_error")
                  [] out = "error" -> Propagated("raised")
                  [] OTHER -> Propagated("exited")
    /\ UNCHANGED <<db, agg, pq, saveTakesGenreMap, vindex, rs, ops, persists, handlers, resubscribed>>

HandleDataSaved ==
    /\ Delivering("handle_sqlite_data_saved_event")
    /\ Accepts("handle_sqlite_data_saved_event", Top.kwargs)
    /\ \E out \in VectorOutcomes :
         /\ vindex' = IndexAfterSave(vindex, Top.kwargs.movies_data,
                                     Top.kwargs.delete_weaviate_collection, out)
         /\ IF out = "exit"
            THEN Propagated("exited") /\ wlog' = wlog
            ELSE /\ Published("ingestion_completed", NoKwargs, 0)
                 /\ wlog' = [wlog EXCEPT !.vec = wlog.vec \cup {Top.tok}]
    /\ UNCHANGED <<db, agg, pq, saveTakesGenreMap, catalog, rs, ops, persists, handlers, resubscribed>>

HandleIngestionCompleted ==
    /\ Delivering("handle_ingestion_completed_event")
    /\ Accepts("handle_ingestion_completed_event", Top.kwargs)
    /\ Returned("ok")
    /\ UNCHANGED <<db, agg, pq, saveTakesGenreMap, catalog, vindex, rs, ops, wlog, persists, handlers,
                   resubscribed>>

\* the loop of publish is over: publish returns to its caller
PublishReturn ==
    /\ stack # <<>>
    /\ Top.idx > Len(TopHandlers)
    /\ stack' = SubSeq(stack, 1, Len(stack) - 1)
    /\ bus' = [bus EXCEPT !.pubs[Top.pub].state = "returned",
                          !.state = IF Len(stack) = 1 THEN "returned" ELSE bus.state]
    /\ UNCHANGED <<db, agg, pq, saveTakesGenreMap, catalog, vindex, rs, ops, wlog, persists, handlers,
                   resubscribed>>

\* the entry point goes on after its publish
PublishDone ==
    /\ stack = <<>>
    /\ bus.state \in {"returned", "raised", "exited"}
    /\ bus' = IdleBus
    /\ wlog' = EmptyLog
    /\ UNCHANGED <<db, agg, pq, saveTakesGenreMap, catalog, vindex, rs, ops, persists, handlers,
                   resubscribed, stack>>

(***************************************************************************)
(* The engine serving one operation at a time.                             *)
(***************************************************************************)
(***************************************************************************)
(* parse_user_query_with_gemini.  A string is the sequence of its words; a *)
(* response text is the sequence of its lexical tokens: punctuation, a     *)
(* double-quoted string, a number, null, or a bare word of prose.          *)
(***************************************************************************)
TPunct(c) == [k |-> c, v |-> <<>>]
TStr(ws) == [k |-> "str", v |-> ws]
TNum(d) == [k |-> "num", v |-> <<d>>]
TNull == [k |-> "null", v |-> <<>>]
TWord(w) == [k |-> "word", v |-> <<w>>]

\* JSON values as json.loads builds them
JNull == [t |-> "null", v |-> <<>>]
JStr(ws) == [t |-> "str", v |-> ws]
JNum(d) == [t |-> "num", v |-> d]
JList(vs) == [t |-> "list", v |-> vs]
JDict(d) == [t |-> "dict", v |-> d]

\* bool(x) of a parsed value
JTruthy(x) ==
    CASE x.t = "null" -> FALSE
      [] x.t = "num" -> x.v # <<"0">>
      [] x.t = "dict" -> DOMAIN x.v # {}
      [] OTHER -> x.v # <<>>

ParseFail == [ok |-> FALSE, val |-> JNull, next |-> 0]
ParseOk(val, next) == [ok |-> TRUE, val |-> val, next |-> next]

\* json.loads on the tokens from position i: a value, and the position after it
RECURSIVE ParseValue(_, _)
RECURSIVE ParseItems(_, _, _)
RECURSIVE ParseMembers(_, _, _)
ParseValue(ts, i) ==
    IF i > Len(ts) THEN ParseFail
    ELSE CASE ts[i].k = "str" -> ParseOk(JStr(ts[i].v), i + 1)
           [] ts[i].k = "num" -> ParseOk(JNum(ts[i].v), i + 1)
           [] ts[i].k = "null" -> ParseOk(JNull, i + 1)
           [] ts[i].k = "[" ->
                IF i + 1 <= Len(ts) /\ ts[i + 1].k = "]"
                THEN ParseOk(JList(<<>>), i + 2)
                ELSE ParseItems(ts, i + 1, <<>>)
           [] ts[i].k = "{" ->
                IF i + 1 <= Len(ts) /\ ts[i + 1].k = "}"
                THEN ParseOk(JDict(<<>>), i + 2)
                ELSE ParseMembers(ts, i + 1, <<>>)
           [] OTHER -> ParseFail

ParseItems(ts, i, acc) ==
    LET r == ParseValue(ts, i)
    IN  IF ~r.ok \/ r.next > Len(ts) THEN ParseFail
        ELSE IF ts[r.next].k = "," THEN ParseItems(ts, r.next + 1, Append(acc, r.val))
        ELSE IF ts[r.next].k = "]" THEN ParseOk(JList(Append(acc, r.val)), r.next + 1)
        ELSE ParseFail

ParseMembers(ts, i, acc) ==
    IF i + 1 > Len(ts) \/ ts[i].k # "str" \/ ts[i + 1].k # ":" THEN ParseFail
    ELSE LET r == ParseValue(ts, i + 2)
             d == [x \in DOMAIN acc \cup {ts[i].v} |-> IF x = ts[i].v THEN r.val ELSE acc[x]]
         IN  IF ~r.ok \/ r.next > Len(ts) THEN ParseFail
             ELSE IF ts[r.next].k = "," THEN ParseMembers(ts, r.next + 1, d)
             ELSE IF ts[r.next].k = "}" THEN ParseOk(JDict(d), r.next + 1)
             ELSE ParseFail

\* json.loads(text): the whole text must be one value
JsonLoads(ts) ==
    LET r == ParseValue(ts, 1)
    IN  IF r.ok /\ r.next = Len(ts) + 1 THEN r ELSE ParseFail

\* the greedy brace pattern of re.search: from the first opening brace to the last
\* closing brace after it
BraceMatch(ts) ==
    LET opens == {i \in 1..Len(ts) : ts[i].k = "{"}
        closes == {i \in 1..Len(ts) : ts[i].k = "}"}
    IN  IF opens = {} THEN None
        ELSE LET first == CHOOSE i \in opens : \A j \in opens : i <= j
                 after == {j \in closes : j > first}
             IN  IF after = {} THEN None
                 ELSE Some(SubSeq(ts, first, CHOOSE j \in after : \A l \in after : l <= j))

\* the quoted-substring pattern of re.findall: the quoted strings, in order
QuotedStrings(ts) ==
    LET quoted == SelectSeq(ts, LAMBDA tok : tok.k = "str")
    IN  [i \in 1..Len(quoted) |-> JStr(quoted[i].v)]

\* dict.get(key)
Key(name) == <<name>>
DictGet(d, name) == IF Key(name) \in DOMAIN d THEN d[Key(name)] ELSE JNull

STOP_WORDS ==
    {"i", "want", "to", "see", "a", "an", "the", "by", "from", "in", "and", "with",
     "about", "movie", "movies", "film", "films", "director", "starring"}

\* the words of the query, lowered, without the stop words
FilteredKeywords(query) ==
    LET kept == SelectSeq(query, LAMBDA w : Lower(w) \notin STOP_WORDS)
    IN  [i \in 1..Len(kept) |-> JStr(<<Lower(kept[i])>>)]

\* the responses of the LLM endpoint to one request
TextDirector ==
    <<TPunct("{"), TStr(<<"director">>), TPunct(":"), TStr(<<"Christopher", "Nolan">>),
      TPunct(","), TStr(<<"start_year">>), TPunct(":"), TNum("2000"),
      TPunct(","), TStr(<<"end_year">>), TPunct(":"), TNum("2010"), TPunct("}")>>
TextYearsOnly ==
    <<TWord("Sure"), TPunct("{"), TStr(<<"director">>), TPunct(":"), TNull,
      TPunct(","), TStr(<<"start_year">>), TPunct(":"), TNum("1990"),
      TPunct(","), TStr(<<"end_year">>), TPunct(":"), TNum("1999"), TPunct("}")>>
TextNoDetails ==
    <<TPunct("{"), TStr(<<"director">>), TPunct(":"), TNull,
      TPunct(","), TStr(<<"start_year">>), TPunct(":"), TNull,
      TPunct(","), TStr(<<"end_year">>), TPunct(":"), TNull, TPunct("}")>>
TextTitles ==
    <<TPunct("{"), TStr(<<"movie_titles">>), TPunct(":"), TPunct("["),
      TStr(<<"Alpha">>), TPunct(","), TStr(<<"Beta">>), TPunct("]"), TPunct("}")>>
TextFencedTitles ==
    <<TWord("json_fence"), TPunct("{"), TStr(<<"movie_titles">>), TPunct(":"), TPunct("["),
      TStr(<<"Gamma">>), TPunct("]"), TPunct("}"), TWord("fence")>>
TextEmptyTitles ==
    <<TPunct("{"), TStr(<<"movie_titles">>), TPunct(":"), TPunct("["), TPunct("]"),
      TPunct("}")>>
TextTitlesNotList ==
    <<TPunct("{"), TStr(<<"movie_titles">>), TPunct(":"), TStr(<<"Alpha">>), TPunct("}")>>
TextProse == <<TWord("Sorry"), TWord("no"), TWord("idea")>>
TextBadBraces == <<TPunct("{"), TWord("oops"), TPunct("}")>>
TextNumber == <<TNum("5")>>

LlmTexts ==
    {TextDirector, TextYearsOnly, TextNoDetails, TextTitles, TextFencedTitles,
     TextEmptyTitles, TextTitlesNotList, TextProse, TextBadBraces, TextNumber}

\* requests.post raised; raise_for_status raised; the body is not JSON; the body lacks
\* candidates[0].content.parts[0].text; or that text, which may be null
LlmResponses ==
    {[kind |-> k, text |-> None] :
        k \in {"conn_error", "http_error", "not_json_body", "missing_fields"}}
    \cup {[kind |-> "text", text |-> None]}
    \cup {[kind |-> "text", text |-> Some(t)] : t \in LlmTexts}

ParseQueries == {<<"Movies", "by", "Nolan">>, <<"heist">>}

\* the local json_text: unbound until its first assignment
Unbound == [bound |-> FALSE, val |-> None]
BoundTo(x) == [bound |-> TRUE, val |-> x]

\* the structured-extraction stage: the intent it returns, if any, and json_text after it
ExtractDetails(query, r) ==
    IF r.kind # "text" THEN [intent |-> None, json_text |-> Unbound]
    ELSE IF r.text = None THEN [intent |-> None, json_text |-> BoundTo(None)]
    ELSE LET m == BraceMatch(r.text[1])
             p == IF m = None THEN ParseFail ELSE JsonLoads(m[1])
             found == /\ p.ok
                      /\ \/ JTruthy(DictGet(p.val.v, "director"))
                         \/ JTruthy(DictGet(p.val.v, "start_year"))
                         \/ JTruthy(DictGet(p.val.v, "end_year"))
         IN  [intent |->
                IF found
                THEN Some([x \in DOMAIN p.val.v \cup {Key("keywords"), Key("movie_titles")} |->
                             CASE x = Key("keywords") -> JList(FilteredKeywords(query))
                               [] x = Key("movie_titles") -> JList(<<>>)
                               [] OTHER -> p.val.v[x]])
                ELSE None,
              json_text |-> BoundTo(r.text)]

\* a title intent that also files the titles as keywords
TitlesIntent_AsKeywords(titles) ==
    [x \in {Key("keywords"), Key("director"), Key("start_year"), Key("end_year"),
            Key("movie_titles")} |->
       CASE x \in {Key("keywords"), Key("movie_titles")} -> titles
         [] OTHER -> JNull]

\* the intent of the title stage around the titles it found
TitlesIntent(titles) ==
    [x \in {Key("keywords"), Key("director"), Key("start_year"), Key("end_year"),
            Key("movie_titles")} |->
       CASE x = Key("keywords") -> JList(<<>>)
         [] x = Key("movie_titles") -> titles
         [] OTHER -> JNull]

\* the final fallback: keywords = [query]
KeywordIntent(query) ==
    [x \in {Key("keywords"), Key("director"), Key("start_year"), Key("end_year"),
            Key("movie_titles")} |->
       CASE x = Key("keywords") -> JList(<<JStr(query)>>)
         [] x = Key("movie_titles") -> JList(<<>>)
         [] OTHER -> JNull]

Returns(intent) == [exc |-> "none", intent |-> Some(intent)]
Raises(exc) == [exc |-> exc, intent |-> None]

\* the handler of json.JSONDecodeError, which reads json_text
RegexTitles(query, jt) ==
    IF ~jt.bound THEN Raises("UnboundLocalError")
    ELSE IF jt.val = None THEN Raises("TypeError")
    ELSE IF QuotedStrings(jt.val[1]) # <<>>
         THEN Returns(TitlesIntent(JList(QuotedStrings(jt.val[1]))))
         ELSE Returns(KeywordIntent(query))

\* the title-generation stage and what follows it, given json_text as stage one left it
GenerateTitleList(query, r, jt) ==
    CASE r.kind \in {"conn_error", "http_error", "missing_fields"} ->
           Returns(KeywordIntent(query))
      [] r.kind = "not_json_body" -> RegexTitles(query, jt)
      [] r.text = None -> Returns(KeywordIntent(query))
      [] OTHER ->
           LET p == JsonLoads(r.text[1])
           IN  IF ~p.ok THEN RegexTitles(query, BoundTo(r.text))
               ELSE IF /\ p.val.t = "dict"
                       /\ Key("movie_titles") \in DOMAIN p.val.v
                       /\ p.val.v[Key("movie_titles")].t = "list"
                    THEN Returns(TitlesIntent(p.val.v[Key("movie_titles")]))
                    ELSE Returns(KeywordIntent(query))

NoResponse == [kind |-> "none", text |-> None]
IdleParse ==
    [pc |-> "idle", query |-> <<>>, json_text |-> Unbound, calls |-> 0,
     first |-> NoResponse, second |-> NoResponse, intent |-> None, exc |-> "none"]

ParseStart ==
    /\ pq.pc = "idle"
    /\ \E q \in ParseQueries : pq' = [IdleParse EXCEPT !.pc = "details", !.query = q]
    /\ UNCHANGED <<db, agg, saveTakesGenreMap, catalog, vindex, rs, ops, wlog, persists, handlers,
                   resubscribed, stack, bus>>

\* a classifier that goes on to the title prompt whatever the first stage found
ParseDetails_FallThrough ==
    /\ pq.pc = "details"
    /\ \E r \in LlmResponses :
         LET o == ExtractDetails(pq.query, r)
         IN  pq' = [pq EXCEPT !.first = r, !.calls = 1, !.json_text = o.json_text,
                              !.intent = o.intent, !.pc = "titles"]
    /\ UNCHANGED <<db, agg, saveTakesGenreMap, catalog, vindex, rs, ops, wlog, persists, handlers,
                   resubscribed, stack, bus>>

ParseDetails ==
    /\ pq.pc = "details"
    /\ \E r \in LlmResponses :
         LET o == ExtractDetails(pq.query, r)
         IN  pq' = [pq EXCEPT !.first = r, !.calls = 1, !.json_text = o.json_text,
                              !.intent = o.intent,
                              !.pc = IF o.intent # None THEN "returned" ELSE "titles"]
    /\ UNCHANGED <<db, agg, saveTakesGenreMap, catalog, vindex, rs, ops, wlog, persists, handlers,
                   resubscribed, stack, bus>>

ParseTitles ==
    /\ pq.pc = "titles"
    /\ \E r \in LlmResponses :
         LET o == GenerateTitleList(pq.query, r, pq.json_text)
         IN  pq' = [pq EXCEPT !.second = r, !.calls = 2, !.intent = o.intent,
                              !.exc = o.exc,
                              !.json_text = IF r.kind = "text" THEN BoundTo(r.text)
                                            ELSE pq.json_text,
                              !.pc = IF o.exc = "none" THEN "returned" ELSE "raised"]
    /\ UNCHANGED <<db, agg, saveTakesGenreMap, catalog, vindex, rs, ops, wlog, persists, handlers,
                   resubscribed, stack, bus>>

ParseEnd ==
    /\ pq.pc \in {"returned", "raised"}
    /\ pq' = IdleParse
    /\ UNCHANGED <<db, agg, saveTakesGenreMap, catalog, vindex, rs, ops, wlog, persists, handlers,
                   resubscribed, stack, bus>>


(***************************************************************************)
(* TMDbClient: the director lookup and the multi-title search.             *)
(***************************************************************************)
NolanName == <<"Christopher", "Nolan">>

\* search/person: the person records for a name, best match first
TmdbPersons(name) ==
    IF name = NolanName THEN <<[id |-> 7, name |-> NolanName], [id |-> 8, name |-> NolanName]>>
    ELSE <<>>

\* person/{id}/movie_credits: the crew entries of a person
TmdbCrew(person_id) ==
    IF person_id = 7
    THEN << [id |-> 2, title |-> "Beta", job |-> "Director", popularity |-> 5],
            [id |-> 1, title |-> "Alpha", job |-> "Producer", popularity |-> 9],
            [id |-> 4, title |-> "Delta", job |-> "Director"],
            [id |-> 3, title |-> "Gamma", job |-> "Director", popularity |-> 7],
            [id |-> 5, title |-> "Epsilon", job |-> "Director", popularity |-> 5],
            [id |-> 6, title |-> "Zeta", popularity |-> 8] >>
    ELSE <<>>

\* get_person_movie_credits: the crew entries whose job is Director
GetPersonMovieCredits(person_id) ==
    SelectSeq(TmdbCrew(person_id),
              LAMBDA c : "job" \in DOMAIN c /\ c.job = "Director")

\* x.get('popularity', 0)
PopularityOf(x) == IF "popularity" \in DOMAIN x THEN x.popularity ELSE 0

\* list.sort(key=popularity, reverse=True): stable, greatest first
RECURSIVE InsertByPopularity(_, _)
InsertByPopularity(sorted, x) ==
    IF sorted = <<>> THEN <<x>>
    ELSE IF PopularityOf(Head(sorted)) >= PopularityOf(x)
         THEN <<Head(sorted)>> \o InsertByPopularity(Tail(sorted), x)
         ELSE <<x>> \o sorted

RECURSIVE SortByPopularity(_)
SortByPopularity(movies) ==
    IF movies = <<>> THEN <<>>
    ELSE InsertByPopularity(SortByPopularity(SubSeq(movies, 1, Len(movies) - 1)),
                            movies[Len(movies)])

GetDirectorMoviesByName(name) ==
    IF TmdbPersons(name) = <<>> THEN <<>>
    ELSE SortByPopularity(GetPersonMovieCredits(TmdbPersons(name)[1].id))

\* search_multiple_titles: the first result of each title that has results, in order
RECURSIVE SearchMultipleTitles(_)
SearchMultipleTitles(titles) ==
    IF titles = <<>> THEN <<>>
    ELSE (IF TmdbSearchResults(Head(titles)) # <<>>
          THEN <<TmdbSearchResults(Head(titles))[1]>> ELSE <<>>)
         \o SearchMultipleTitles(Tail(titles))

(***************************************************************************)
(* The Concurrent Query Executor: a batch of requests, each run through    *)
(* run_search on a thread of its own, and the map of results by key.       *)
(***************************************************************************)
ConcRequests ==
    {[query |-> q, cfg |-> NoConfig, enrich |-> TRUE, gemini |-> FALSE] :
        q \in {"alfa", "alpha"}}

EmptyBatch ==
    [requests |-> <<>>, results |-> <<>>, errors |-> {}]

\* m with key k bound to x
Put(m, k, x) == [j \in DOMAIN m \cup {k} |-> IF j = k THEN x ELSE m[j]]

InFlight == {v \in Workers : rs[v].pc # "idle"}

\* the next queued request gets its thread, which calls run_search on it
Submit(w) ==
    /\ rs[w].pc = "idle"
    /\ w = ops + 1
    /\ \E r \in ConcRequests :
         /\ rs' = [rs EXCEPT ![w] = EnterSearch(r)]
         /\ agg' = [agg EXCEPT !.requests = Put(agg.requests, ops + 1, r)]
    /\ ops' = ops + 1
    /\ UNCHANGED <<db, pq, saveTakesGenreMap, catalog, vindex, wlog, persists, handlers,
                   resubscribed, stack, bus>>

\* the executor takes the outcome of a finished pipeline: its result under its key, or,
\* when it raised, a logged error and no result
Collect(w) ==
    /\ Finished(rs[w])
    /\ agg' = IF rs[w].pc = "done"
              THEN [agg EXCEPT !.results = Put(agg.results, rs[w].key, Result(rs[w]))]
              ELSE [agg EXCEPT !.errors = agg.errors \cup {rs[w].key}]
    /\ rs' = [rs EXCEPT ![w] = IdleFrame]
    /\ wlog' = IF InFlight \subseteq {w} THEN EmptyLog ELSE wlog
    /\ UNCHANGED <<db, pq, saveTakesGenreMap, catalog, vindex, ops, persists, handlers,
                   resubscribed, stack, bus>>

\* one blocking call of the pipeline of worker w
PipelineStep(w) ==
    \/ VectorSearch(w)
    \/ CatalogLookup(w)
    \/ GenerateTitles(w)
    \/ ResolveTitle(w)
    \/ SaveCatalog(w)
    \/ SaveVectors(w)

(***************************************************************************)
(* PostgresHelper: one operation, statement by statement.  Each operation  *)
(* runs inside "with self.get_connection() as conn", which in psycopg2     *)
(* ends the transaction when the block is left (commit, or rollback on an  *)
(* exception) and does not close the connection; nothing calls close().    *)
(* The connection is closed when the last reference to it goes: at a       *)
(* normal return the local conn is that reference; when the operation      *)
(* raises, the traceback of the exception keeps the frame, and conn.       *)
(***************************************************************************)
DbOperations ==
    {"init_database", "movie_exists_in_db", "save_movies_to_db", "clear_all_tables",
     "get_movies_by_ids_from_db"}

\* the operations that call conn.commit() themselves and re-raise what they catch
Writers == {"init_database", "save_movies_to_db", "clear_all_tables"}

\* the batches save_movies_to_db is called with
DbBatches ==
    { <<MovieFromTmdb(TmdbAlpha)>>,
      <<MovieFromTmdb(TmdbAlphaLater), MovieFromTmdb(TmdbBeta)>> }

IdleDb ==
    [pc |-> "idle", op |-> "", batch |-> <<>>, conn |-> "none", txn |-> "none",
     work |-> {}, before |-> {}]

\* a caller enters an operation of PostgresHelper
DbCall ==
    /\ db.pc = "idle"
    /\ ops < MaxOps
    /\ \E op \in DbOperations, batch \in DbBatches :
         /\ op # "save_movies_to_db" => batch = CHOOSE b \in DbBatches : TRUE
         /\ db' = [IdleDb EXCEPT !.pc = "connect", !.op = op, !.before = catalog,
                                 !.batch = IF op = "save_movies_to_db" THEN batch ELSE <<>>]
    /\ ops' = ops + 1
    /\ UNCHANGED <<saveTakesGenreMap, catalog, vindex, rs, wlog, persists, handlers,
                   resubscribed, stack, bus, pq, agg>>

\* get_connection: psycopg2.connect, or sys.exit(1) when it fails
GetConnection ==
    /\ db.pc = "connect"
    /\ \E connected \in BOOLEAN :
         db' = IF connected
               THEN [db EXCEPT !.conn = "open", !.pc = "execute"]
               ELSE [db EXCEPT !.pc = "exited"]
    /\ UNCHANGED <<saveTakesGenreMap, catalog, vindex, rs, ops, wlog, persists, handlers,
                   resubscribed, stack, bus, pq, agg>>

\* the table as the statements of an operation leave it inside its transaction
AfterStatements(op, table, batch) ==
    CASE op = "save_movies_to_db" -> UpsertBatch(table, batch)
      [] op = "clear_all_tables" -> {}
      [] OTHER -> table

\* cur.execute of the statements of the operation: they start a transaction, and an
\* error in one of them leaves the with block as an exception
Execute ==
    /\ db.pc = "execute"
    /\ \E ok \in BOOLEAN :
         db' = IF ok
               THEN [db EXCEPT !.txn = "active",
                               !.work = AfterStatements(db.op, catalog, db.batch),
                               !.pc = IF db.op \in Writers THEN "commit" ELSE "exit_with"]
               ELSE [db EXCEPT !.txn = "active", !.work = catalog, !.pc = "exit_raising"]
    /\ UNCHANGED <<saveTakesGenreMap, catalog, vindex, rs, ops, wlog, persists, handlers,
                   resubscribed, stack, bus, pq, agg>>

\* conn.commit() as the last statement of the with block
Commit ==
    /\ db.pc = "commit"
    /\ \E ok \in BOOLEAN :
         IF ok
         THEN /\ catalog' = db.work
              /\ db' = [db EXCEPT !.txn = "committed", !.pc = "exit_with"]
         ELSE /\ catalog' = catalog
              /\ db' = [db EXCEPT !.pc = "exit_raising"]
    /\ UNCHANGED <<saveTakesGenreMap, vindex, rs, ops, wlog, persists, handlers,
                   resubscribed, stack, bus, pq, agg>>

\* connection.__exit__ without an exception: commit; the connection stays open
ExitWith ==
    /\ db.pc = "exit_with"
    /\ catalog' = db.work
    /\ db' = [db EXCEPT !.txn = "committed", !.pc = "return"]
    /\ UNCHANGED <<saveTakesGenreMap, vindex, rs, ops, wlog, persists, handlers,
                   resubscribed, stack, bus, pq, agg>>

\* connection.__exit__ with an exception: rollback; the connection stays open.  The
\* except clause of a writer re-raises, that of a reader returns False or []
ExitRaising ==
    /\ db.pc = "exit_raising"
    /\ db' = [db EXCEPT !.txn = "rolled_back", !.work = catalog,
                        !.pc = IF db.op \in Writers THEN "raise" ELSE "return"]
    /\ UNCHANGED <<saveTakesGenreMap, catalog, vindex, rs, ops, wlog, persists, handlers,
                   resubscribed, stack, bus, pq, agg>>

\* the operation returns: its frame goes, and with it the last reference to conn
ConnAfterReturn(conn) == IF conn = "open" THEN "closed" ELSE conn

DbReturn ==
    /\ db.pc = "return"
    /\ db' = [db EXCEPT !.conn = ConnAfterReturn(db.conn), !.pc = "returned"]
    /\ UNCHANGED <<saveTakesGenreMap, catalog, vindex, rs, ops, wlog, persists, handlers,
                   resubscribed, stack, bus, pq, agg>>

\* raise e: the exception leaves the operation with the frame, and conn, in its traceback
DbRaise ==
    /\ db.pc = "raise"
    /\ db' = [db EXCEPT !.pc = "raised"]
    /\ UNCHANGED <<saveTakesGenreMap, catalog, vindex, rs, ops, wlog, persists, handlers,
                   resubscribed, stack, bus, pq, agg>>

\* the caller goes on; an exception it caught is dropped, and its traceback with it
DbDone ==
    /\ db.pc \in {"returned", "raised", "exited"}
    /\ db' = IdleDb
    /\ UNCHANGED <<saveTakesGenreMap, catalog, vindex, rs, ops, wlog, persists, handlers,
                   resubscribed, stack, bus, pq, agg>>

Init ==
    /\ saveTakesGenreMap \in BOOLEAN
    /\ catalog = {}
    /\ vindex = EmptyIndex
    /\ rs = [w \in Workers |-> IdleFrame]
    /\ ops = 0
    /\ wlog = EmptyLog
    /\ persists = [id \in MovieIds |-> 0]
    /\ handlers = SubscribeToEventBus(NoHandlers)
    /\ resubscribed = 0
    /\ stack = <<>>
    /\ bus = IdleBus
    /\ pq = IdleParse
    /\ agg = EmptyBatch
    /\ db = IdleDb

Next ==
    \/ AllIdle /\ bus.state = "idle" /\ StartSearch(1)
    \/ VectorSearch(1)
    \/ CatalogLookup(1)
    \/ GenerateTitles(1)
    \/ ResolveTitle(1)
    \/ SaveCatalog(1)
    \/ SaveVectors(1)
    \/ ReturnSearch(1)
    \/ Resubscribe
    \/ Publish
    \/ RejectPayload
    \/ HandleStartIngestion
    \/ HandleMoviesFetched
    \/ HandleDataSaved
    \/ HandleIngestionCompleted
    \/ PublishReturn
    \/ PublishDone

Spec == Init /\ [][Next]_vars

\* the classifier on its own: every query against every pair of LLM responses
NextParse ==
    \/ ParseStart
    \/ ParseDetails
    \/ ParseTitles
    \/ ParseEnd

SpecParse == Init /\ [][NextParse]_vars

\* the operations of PostgresHelper on their own, one call after another
NextCatalog ==
    \/ DbCall
    \/ GetConnection
    \/ Execute
    \/ Commit
    \/ ExitWith
    \/ ExitRaising
    \/ DbReturn
    \/ DbRaise
    \/ DbDone

SpecCatalog == Init /\ [][NextCatalog]_vars

\* run_search against stores that earlier ingestions have filled: the movies of the
\* first provider page, indexed three times (ingested again without a recreate), and
\* a Catalog Store that holds their rows or has been cleared
IngestedPage == MovieObjects(<<TmdbAlpha, TmdbBeta, TmdbGamma, TmdbDelta>>)
FilledCatalogs == { {}, UpsertBatch({}, IngestedPage) }
FilledIndexes ==
    { EmptyIndex,
      AddObjects(AddObjects(AddObjects(EmptyIndex, IngestedPage), IngestedPage),
                 IngestedPage) }

InitSearch ==
    /\ saveTakesGenreMap \in BOOLEAN
    /\ catalog \in FilledCatalogs
    /\ vindex \in FilledIndexes
    /\ ~saveTakesGenreMap => catalog = {} /\ vindex = EmptyIndex
    /\ rs = [w \in Workers |-> IdleFrame]
    /\ ops = 0
    /\ wlog = EmptyLog
    /\ persists = [id \in MovieIds |-> 0]
    /\ handlers = SubscribeToEventBus(NoHandlers)
    /\ resubscribed = 0
    /\ stack = <<>>
    /\ bus = IdleBus
    /\ pq = IdleParse
    /\ agg = EmptyBatch
    /\ db = IdleDb

\* PostgresHelper.clear_all_tables between two calls of run_search
ClearAllTables ==
    /\ AllIdle
    /\ catalog # {}
    /\ catalog' = AfterStatements("clear_all_tables", catalog, <<>>)
    /\ UNCHANGED <<db, agg, pq, saveTakesGenreMap, vindex, rs, ops, wlog, persists, handlers,
                   resubscribed, stack, bus>>

NextSearch ==
    \/ StartSearch(1)
    \/ VectorSearch(1)
    \/ CatalogLookup(1)
    \/ GenerateTitles(1)
    \/ ResolveTitle(1)
    \/ SaveCatalog(1)
    \/ SaveVectors(1)
    \/ ReturnSearch(1)
    \/ ClearAllTables

SpecSearch == InitSearch /\ [][NextSearch]_vars

\* the executor has handed every request of the batch to a thread
BatchSubmitted == ops = MaxOps

\* the executor's batch: the pipelines of all threads, interleaved call by call
NextConc ==
    \/ \E w \in Workers : Submit(w)
    \/ \E w \in Workers : BatchSubmitted /\ VectorSearch(w)
    \/ \E w \in Workers : BatchSubmitted /\ CatalogLookup(w)
    \/ \E w \in Workers : BatchSubmitted /\ GenerateTitles(w)
    \/ \E w \in Workers : BatchSubmitted /\ ResolveTitle(w)
    \/ \E w \in Workers : BatchSubmitted /\ SaveCatalog(w)
    \/ \E w \in Workers : BatchSubmitted /\ SaveVectors(w)
    \/ \E w \in Workers : BatchSubmitted /\ Collect(w)

\* every thread that can take a step eventually takes one
SpecConc ==
    Init /\ [][NextConc]_vars
         /\ \A w \in Workers : WF_vars(PipelineStep(w) \/ Collect(w))


(***************************************************************************)
(* Properties of the engine serving one operation at a time (Spec).        *)
(***************************************************************************)
Call == rs[1]

\* C1: write ordering.  In title resolution and in the ingestion handlers, the
\* Vector Index upsert of a batch happens only after the Catalog Store upsert of that
\* batch has succeeded, and no Vector Index upsert happens for a batch whose Catalog
\* Store write failed; the index changes only in a step that upserts such a batch.
C1_WriteOrdering ==
    [][ /\ (wlog'.vec \ wlog.vec) \subseteq wlog.dbOk
        /\ wlog'.vec \cap wlog'.dbFail = {}
        /\ vindex' # vindex => wlog'.vec \cap wlog.dbOk # {} ]_vars

\* an ingestion in which one batch reached the index and another batch's catalog write failed
C1_Witness == wlog.vec # {} /\ wlog.dbFail # {} /\ vindex # EmptyIndex

C3_CacheHit ==
    /\ \A k \in 1..Len(Call.fetched) : MovieByTitle(Call.cat0, Call.fetched[k].title) = None
    /\ \A k \in 1..Len(Call.cached) :
         /\ MovieByTitle(Call.cat0, Call.cached[k]) # None
         /\ \E j \in 1..Len(Call.all) : Call.all[j] = MovieByTitle(Call.cat0, Call.cached[k])[1]
    /\ (Call.titles # <<>> /\ Call.fetched = <<>>) =>
         /\ Call.newly = <<>> /\ Call.dbout = "none" /\ Call.vecout = "none"
         /\ catalog = Call.cat0 /\ vindex = Call.vec0
         /\ Call.all = [k \in 1..Len(Call.cached) |-> MovieByTitle(Call.cat0, Call.cached[k])[1]]

\* a call that returned having resolved every title from the catalog
C3_Witness ==
    Call.pc = "done" /\ Call.cached # <<>> /\ Call.fetched = <<>> /\ Call.tmdb # <<>>

IndexSize(vi) == LET RECURSIVE sum(_)
                     sum(n) == IF n = 0 THEN 0 ELSE vi[n] + sum(n - 1)
                 IN  sum(6)

RefYear(d) ==
    IF d # None /\ Len(d[1]) >= 4 /\ \A k \in 1..4 : d[1][k] \in DigitChars
    THEN Some(1000 * DigitVal(d[1][1]) + 100 * DigitVal(d[1][2])
              + 10 * DigitVal(d[1][3]) + DigitVal(d[1][4]))
    ELSE None

\* the reference filter: inclusive bounds, undated movies dropped by a bounded filter
RefPasses(row, cfg) ==
    \/ cfg.start_year = None /\ cfg.end_year = None
    \/ /\ RefYear(row.release_date) # None
       /\ cfg.start_year # None => cfg.start_year[1] <= RefYear(row.release_date)[1]
       /\ cfg.end_year # None => RefYear(row.release_date)[1] <= cfg.end_year[1]

RefTitles(hits, cat, cfg) ==
    LET kept == SelectSeq(hits, LAMBDA h : \E r \in cat : r.tmdb_id = h.movie_id
                                                          /\ RefPasses(r, cfg))
    IN  [k \in 1..Len(kept) |->
           (CHOOSE r \in cat : r.tmdb_id = kept[k].movie_id).title]

CollaboratorFailed(f) ==
    \/ f.vsearch = "failed" \/ f.llm = "raised" \/ f.vecout \in {"no_embeddings", "exit"}
    \/ \E k \in 1..Len(f.fetched) : f.fetched[k].out = "failed"

CatalogFailed(f) == f.lookup \in {"error", "exit"} \/ f.dbout \in {"error", "exit", "typeerror"}

C9_PersistenceFailure ==
    (Finished(Call) /\ Call.dbout \in {"error", "typeerror"})
    => /\ catalog = Call.cat0
       /\ Call.pc = "done"
       /\ Call.tmdb = Call.all

\* the log entries of publish call p, in order of invocation
EntriesOf(p) == SelectSeq(bus.log, LAMBDA e : e.pub = p)
Pubs == 1..Len(bus.pubs)

LogIndex(p, k) == CHOOSE j \in 1..Len(bus.log) : bus.log[j].pub = p /\ bus.log[j].idx = k

C5_FallbackTotality ==
    /\ pq.pc # "raised"
    /\ pq.pc = "returned" =>
         /\ pq.intent # None
         /\ (pq.first.kind # "text" /\ pq.second.kind # "text")
              => pq.intent[1] = KeywordIntent(pq.query)


(***************************************************************************)
(* Properties of the pool of concurrent pipelines (SpecConc).              *)
(***************************************************************************)
\* what run_search returns for request r when it runs alone on the stores of Init
FirstMovie(results) ==
    IF results # <<>> /\ WellFormed(results[1]) THEN <<MovieFromTmdb(results[1])>> ELSE <<>>

AloneResults(r) ==
    LET hits == NearVector(r.query, EmptyIndex)
        ids == {hits[k].movie_id : k \in 1..Len(hits)}
        wres == ProcessHits(hits, FilterByYear(MoviesByIds({}, ids), r.cfg))
        tmdb == IF ~r.enrich THEN {<<>>}
                ELSE IF MovieByTitle({}, r.query) # None
                     THEN {<<MovieByTitle({}, r.query)[1]>>}
                     ELSE {FirstMovie(TmdbSearch(r.query, out)) : out \in {"ok", "failed"}}
    IN  {[tmdb_results |-> t, weaviate_results |-> x] : t \in tmdb, x \in {wres, <<>>}}

\* the catalog upserts of title resolution so far are those of this call alone
OnlyWriter(f) ==
    \A id \in MovieIds :
       persists[id] = IF f.dbout = "ok"
                      THEN Cardinality({k \in 1..Len(f.newly) : f.newly[k].id = id})
                      ELSE 0

\* the call failed by what its own store calls did
OwnFailure(f) ==
    \/ f.lookup = "exit"
    \/ f.dbout \in {"error", "exit", "typeerror"}
    \/ f.vecout = "exit"

C7_State ==
    /\ DOMAIN agg.results \cap agg.errors = {}
    /\ \A w \in Workers :
         /\ Finished(rs[w]) => (rs[w].pc = "done" <=> ~OwnFailure(rs[w]))
         /\ rs[w].pc # "idle" => ENABLED (PipelineStep(w) \/ Collect(w))
         /\ (rs[w].pc = "done" /\ OnlyWriter(rs[w]))
              => Result(rs[w]) \in AloneResults(agg.requests[rs[w].key])

C7_Step ==
    \A w \in Workers :
       /\ rs'[w] # rs[w] => \A v \in Workers \ {w} : rs'[v] = rs[v]
       /\ (~Finished(rs[w]) /\ rs'[w].pc \in {"raised", "exited"})
            => catalog' = catalog /\ vindex' = vindex /\ agg' = agg
       /\ (Finished(rs[w]) /\ rs'[w].pc = "idle")
            => /\ catalog' = catalog /\ vindex' = vindex
               /\ IF rs[w].pc = "done"
                  THEN /\ rs[w].key \in DOMAIN agg'.results
                       /\ agg'.results[rs[w].key] = Result(rs[w])
                       /\ agg'.errors = agg.errors
                  ELSE /\ agg'.errors = agg.errors \cup {rs[w].key}
                       /\ agg'.results = agg.results

FramesOf(p) == {k \in 1..Len(stack) : stack[k].pub = p}

\* C11: event bus error containment.  When a handler raises TypeError for the payload,
\* publish goes on: the next handler of the topic is the next one invoked, with the
\* same payload, and the publish call is not ended by that error: it returns to its
\* publisher having invoked every handler, unless a later handler raised another error.
C11_TypeErrorContained ==
    \A p \in Pubs :
       LET es == EntriesOf(p)
           rec == bus.pubs[p]
       IN  \A k \in 1..Len(es) :
              es[k].result = "type_error" =>
                 /\ es[k].kwargs = es[1].kwargs
                 /\ k < rec.n =>
                      \/ /\ Len(es) > k
                         /\ es[k + 1].idx = k + 1
                         /\ es[k + 1].handler = HandlersOf(handlers, rec.topic)[k + 1]
                         /\ es[k + 1].kwargs = es[k].kwargs
                      \/ /\ Len(es) = k
                         /\ \E f \in FramesOf(p) :
                               stack[f].idx = k + 1 /\ stack[f].kwargs = es[k].kwargs
                 /\ k = rec.n /\ Len(es) = k =>
                      rec.state = "returned" \/ \E f \in FramesOf(p) : stack[f].idx = k + 1
                 /\ rec.state = "returned" => Len(es) = rec.n
                 /\ rec.state = "aborted" =>
                      Len(es) > k /\ es[Len(es)].result \in {"ok", "raised", "exited"}

\* a publish that returned although its first handler rejected the payload, the second
\* subscription of the same handler having been invoked after it
C11_Witness ==
    /\ bus.state = "returned"
    /\ \E p \in Pubs :
         /\ Len(EntriesOf(p)) >= 2
         /\ EntriesOf(p)[1].result = "type_error"
         /\ EntriesOf(p)[2].idx = 2


\* the topics of the publish calls made since the top-level publish, in order
PubTopics == [k \in Pubs |-> bus.pubs[k].topic]

\* C12: ingestion pipeline progress.  Once a publish of start_ingestion to a
\* SearchEngine subscribed once has returned, its fetch having been non-empty, the
\* events movies_fetched_for_ingestion, sqlite_data_saved and ingestion_completed have
\* each been published once, in that order, each by the handler of the one before;
\* the catalog save and then the vector save of the batch have happened; and
\* ingestion_completed has been handled.
C12_PipelineProgress ==
    (/\ bus.state = "returned"
     /\ bus.pubs[1].topic = "start_ingestion" /\ bus.pubs[1].n = 1
     /\ Len(bus.pubs) >= 2)
    => /\ PubTopics = <<"start_ingestion", "movies_fetched_for_ingestion",
                        "sqlite_data_saved", "ingestion_completed">>
       /\ \A k \in 2..Len(bus.pubs) :
            bus.pubs[k].parent = k - 1 /\ bus.pubs[k].state = "returned"
       /\ wlog.dbOk # {} /\ wlog.vec = wlog.dbOk
       /\ \E j \in 1..Len(bus.log) :
            /\ bus.log[j].handler = "handle_ingestion_completed_event"
            /\ bus.log[j].result = "ok"


\* the intents parse_user_query_with_gemini can return for a query (a sequence of words)
ClassifierIntents(query) ==
    LET first == {ExtractDetails(query, r) : r \in LlmResponses}
        second == {GenerateTitleList(query, r, o.json_text) :
                     r \in LlmResponses, o \in {x \in first : x.intent = None}}
    IN  {o.intent[1] : o \in {x \in first : x.intent # None}}
        \cup {o.intent[1] : o \in {x \in second : x.exc = "none"}}

\* the branch the fixed priority selects for an intent
BranchFor(intent) ==
    IF JTruthy(DictGet(intent, "director")) THEN "director"
    ELSE IF JTruthy(DictGet(intent, "movie_titles")) THEN "titles"
    ELSE "semantic"

\* the branches a call of run_search ran: run_search has no call of the director
\* lookup, and resolves titles only as the enrichment step after its vector search
BranchesRun(f) == IF f.vsearch # "none" THEN {"semantic"} ELSE {}

\* C13: branch priority.  For every intent the classifier can return for the query
\* of a call, the call has run exactly one branch, the one the priority selects for
\* that intent: director, else explicit titles, else keyword/semantic.
C13_BranchPriority ==
    Finished(Call) =>
       \A intent \in ClassifierIntents(<<Call.query>>) :
          BranchesRun(Call) = {BranchFor(intent)}


\* the ids of a list of records
IdsOf(ms) == [k \in 1..Len(ms) |-> ms[k].id]

\* C14: the director branch makes no vector query.  For every intent with a director
\* that the classifier can return for the query of a call, the call has made no
\* nearest-neighbour search and its provider-sourced list is that person's
\* director-job credits by descending popularity.
C14_DirectorBranch ==
    Finished(Call) =>
       \A intent \in ClassifierIntents(<<Call.query>>) :
          JTruthy(DictGet(intent, "director")) =>
             /\ Call.vsearch = "none"
             /\ IdsOf(Call.tmdb) = IdsOf(GetDirectorMoviesByName(DictGet(intent, "director").v))


WresTitles(f) == [k \in 1..Len(f.wres) |-> f.wres[k].title]

\* the titles a call resolved to a record: from the catalog, or well-formed from the provider
ResolvedCount(f) ==
    Len(f.cached)
    + Cardinality({k \in 1..Len(f.fetched) :
                     /\ f.fetched[k].results # <<>>
                     /\ WellFormed(f.fetched[k].results[1])})

ResolutionOf(f, k) ==
    LET t == f.titles[k]
        answers == {j \in 1..Len(f.fetched) : f.fetched[j].title = t}
    IN  IF MovieByTitle(f.cat0, t) # None THEN <<MovieByTitle(f.cat0, t)[1]>>
        ELSE IF answers = {} THEN <<>>
        ELSE FirstMovie(f.fetched[CHOOSE j \in answers : TRUE].results)

\* the records of the first n titles, in title order
RECURSIVE ResolvedUpTo(_, _)
ResolvedUpTo(f, n) ==
    IF n = 0 THEN <<>> ELSE ResolvedUpTo(f, n - 1) \o ResolutionOf(f, n)

\* the provider's first result for each title that has results, in title order
FirstResultIds(titles) ==
    LET have == SelectSeq(titles, LAMBDA t : TmdbSearchResults(t) # <<>>)
    IN  [k \in 1..Len(have) |-> TmdbSearchResults(have[k])[1].id]

\* C16: title order.  The list title resolution builds, and returns, holds in input
\* order one record for each title found in the Catalog Store or fetched well-formed
\* from the provider, and nothing for a title that resolved to nothing; the loop ends
\* in an error only when a store call of the run failed; and search_multiple_titles
\* returns the first result of each title that has results, in input order.
C16_TitleOrder ==
    /\ Call.pc \in {"resolve", "save_db", "save_vec"} =>
         Call.all = ResolvedUpTo(Call, Call.i - 1)
    /\ (Call.pc = "done" /\ Call.enrich) =>
         Call.tmdb = ResolvedUpTo(Call, Len(Call.titles))
    /\ Call.pc \in {"raised", "exited"} => OwnFailure(Call)
    /\ IdsOf(SearchMultipleTitles(Call.titles)) = FirstResultIds(Call.titles)

\* two titles, the first fetched and the second found in the catalog, returned in
\* that order
C16_Witness ==
    /\ Call.pc = "done" /\ Len(Call.titles) = 2 /\ Len(Call.tmdb) = 2
    /\ Len(Call.fetched) = 1 /\ Call.fetched[1].title = Call.titles[1]
    /\ Call.cached = <<Call.titles[2]>>
    /\ Call.tmdb[1].id # Call.tmdb[2].id


\* the log entries of the handler of movies_fetched_for_ingestion
FetchedEntries ==
    {j \in 1..Len(bus.log) : bus.log[j].handler = "handle_movies_fetched_event"}

\* a record missing a required field is among the dicts
HasMalformed(dicts) == \E k \in 1..Len(dicts) : ~WellFormed(dicts[k])

\* the first results the title resolution of a call was given, in title order
FirstResults(f) ==
    LET got == SelectSeq(f.fetched, LAMBDA e : e.results # <<>>)
    IN  [k \in 1..Len(got) |-> got[k].results[1]]

\* the title resolution of the call asked the provider once for each title it fetched
FetchedOnce(f) ==
    \A j, k \in 1..Len(f.fetched) : f.fetched[j].title = f.fetched[k].title => j = k

\* C17: malformed record skip.  A fetched batch holding a record that misses a required
\* field goes on without it.  In ingestion, once the top-level publish has returned,
\* every well-formed record of such a page has its row in the Catalog Store and the
\* well-formed records, without the malformed one, were handed to the Vector Index
\* step.  In title resolution, each title is fetched once, and once a run that was
\* given a malformed record has ended without a store failure, every well-formed
\* record it fetched has its row in the Catalog Store and is in the batch of the
\* Vector Index step, which holds no other record.
C17_MalformedSkip ==
    /\ bus.state = "returned" =>
         \A j \in FetchedEntries :
            LET dicts == bus.log[j].kwargs.movies_data_dicts
                objs == MovieObjects(dicts)
            IN  HasMalformed(dicts) =>
                   /\ \A k \in 1..Len(dicts) :
                         WellFormed(dicts[k]) => dicts[k].id \in CatalogIds(catalog)
                   /\ \E i \in 1..Len(bus.log) :
                         /\ bus.log[i].handler = "handle_sqlite_data_saved_event"
                         /\ bus.log[i].kwargs.movies_data = objs
                         /\ \A k \in 1..Len(objs) : objs[k].id # TmdbBad.id
    /\ FetchedOnce(Call)
    /\ (/\ Finished(Call) /\ HasMalformed(FirstResults(Call))
        /\ Call.dbout \notin {"error", "exit"} /\ Call.vecout # "exit") =>
         /\ \A k \in 1..Len(FirstResults(Call)) :
               WellFormed(FirstResults(Call)[k]) =>
                  /\ FirstResults(Call)[k].id \in CatalogIds(catalog)
                  /\ \E n \in 1..Len(Call.newly) :
                        Call.newly[n] = MovieFromTmdb(FirstResults(Call)[k])
         /\ \A n \in 1..Len(Call.newly) : Call.newly[n].id # TmdbBad.id


\* the rows the table holds for an id
RowsOfId(cat, id) == {r \in cat : r.tmdb_id = id}

\* the last movie of a batch with the id
LastFor(batch, id) ==
    LET ks == {k \in 1..Len(batch) : batch[k].id = id}
    IN  batch[CHOOSE k \in ks : \A j \in ks : j <= k]

\* the batches whose save_movies_to_db call is the next step of a thread or handler
SavingBatches ==
    {rs[w].newly : w \in {v \in Workers : rs[v].pc = "save_db"}}
    \cup (IF Delivering("handle_movies_fetched_event")
          THEN {MovieObjects(Top.kwargs.movies_data_dicts)} ELSE {})

\* the table after a batch was upserted: for each id of the batch the one row of its
\* last movie, and the other ids as they were
UpsertedBy(batch, before, after) ==
    \A id \in MovieIds :
       RowsOfId(after, id) =
          IF \E k \in 1..Len(batch) : batch[k].id = id
          THEN {RowOf(LastFor(batch, id))}
          ELSE RowsOfId(before, id)

C18_State ==
    /\ CatalogIds(catalog) \subseteq MovieIds
    /\ \A id \in MovieIds : Cardinality(RowsOfId(catalog, id)) <= 1

C18_Step ==
    /\ wlog'.dbFail # wlog.dbFail => catalog' = catalog
    /\ catalog' # catalog =>
         /\ wlog'.dbOk # wlog.dbOk
         /\ \E batch \in SavingBatches : UpsertedBy(batch, catalog, catalog')

C20_SelfContained ==
    db.pc \in {"returned", "raised"} =>
       /\ db.conn = "closed"
       /\ db.txn \in {"committed", "rolled_back"}
       /\ db.txn = "rolled_back" => catalog = db.before
       /\ db.txn = "committed" => catalog = AfterStatements(db.op, db.before, db.batch)


(***************************************************************************)
(* Further properties of the classifier (SpecParse).                       *)
(***************************************************************************)
\* the classifier has left parse_user_query_with_gemini, by a return or an exception
Left == pq.pc \in {"returned", "raised"}

\* the text of a response, as a token sequence; empty when the response carries none
TextOf(r) == IF r.kind = "text" /\ r.text # None THEN r.text[1] ELSE <<>>

\* the response holds a JSON object (between its first and last brace) in which
\* director, start_year or end_year has a value that is not null, zero or empty
Populates(r) ==
    LET m == BraceMatch(TextOf(r))
        p == IF m = None THEN ParseFail ELSE JsonLoads(m[1])
    IN  /\ p.ok
        /\ \E name \in {"director", "start_year", "end_year"} :
             /\ Key(name) \in DOMAIN p.val.v
             /\ p.val.v[Key(name)] \notin {JNull, JNum(<<"0">>), JStr(<<>>)}

\* C21: classifier stage order.  The structured-extraction prompt is issued first;
\* the generate-titles prompt is issued exactly when the first response populated
\* none of director, start_year, end_year (or the stage failed); so a classification
\* that has ended made one LLM call when a field was populated and two otherwise, and
\* a structured result has an empty movie_titles.
C21_StageOrder ==
    /\ pq.second # NoResponse => pq.first # NoResponse /\ ~Populates(pq.first)
    /\ pq.calls = (IF pq.first = NoResponse THEN 0 ELSE IF pq.second = NoResponse THEN 1 ELSE 2)
    /\ Left =>
         /\ pq.calls = (IF Populates(pq.first) THEN 1 ELSE 2)
         /\ pq.calls = 1 =>
              /\ pq.pc = "returned"
              /\ pq.intent[1][Key("movie_titles")] = JList(<<>>)
              /\ \E name \in {"director", "start_year", "end_year"} :
                   JTruthy(DictGet(pq.intent[1], name))

C21_Witness ==
    /\ pq.pc = "returned"
    /\ pq.calls = 1
    /\ pq.first.text = Some(TextYearsOnly)
    /\ pq.intent[1][Key("director")] = JNull
    /\ pq.intent[1][Key("start_year")] = JNum(<<"1990">>)
    /\ pq.intent[1][Key("movie_titles")] = JList(<<>>)


\* the generate-titles stage got an answer that is not JSON: the body of the HTTP
\* response, or the text inside it
NotParseable(r) ==
    \/ r.kind = "not_json_body"
    \/ r.kind = "text" /\ r.text # None /\ ~JsonLoads(r.text[1]).ok

\* C22: quoted-substring fallback.  When the answer to the generate-titles prompt is
\* not machine-parseable, the classifier returns the intent whose titles are the
\* double-quoted substrings of that answer, in order of appearance (never anything of
\* the first stage's response), or the keyword-only intent when that answer has no
\* quoted substring.
C22_QuotedFallback ==
    Left /\ pq.calls = 2 /\ NotParseable(pq.second) =>
       /\ pq.pc = "returned"
       /\ pq.intent =
            Some(IF QuotedStrings(TextOf(pq.second)) # <<>>
                 THEN TitlesIntent(JList(QuotedStrings(TextOf(pq.second))))
                 ELSE KeywordIntent(pq.query))


\* the fields of the intent the classifier returned
Field(name) == DictGet(pq.intent[1], name)
Structured == \E name \in {"director", "start_year", "end_year"} : JTruthy(Field(name))
NoStructure == \A name \in {"director", "start_year", "end_year"} : Field(name) = JNull

\* C23 as stated: intent exclusivity.  A returned intent with a director or a year
\* bound has no titles; one with titles has a null director, null years and no
\* keywords; any other is the keyword-only intent, keywords = [query].
C23_Exclusivity ==
    pq.pc = "returned" =>
       /\ Structured => Field("movie_titles") = JList(<<>>)
       /\ JTruthy(Field("movie_titles")) => NoStructure /\ Field("keywords") = JList(<<>>)
       /\ ~Structured /\ ~JTruthy(Field("movie_titles")) => pq.intent[1] = KeywordIntent(pq.query)

\* C23, amended: as above, except that an intent with neither structure nor titles
\* is the keyword-only intent or, when the generate-titles stage answered with an
\* empty movie_titles list, the intent with no keywords either.
C23_Selectors ==
    pq.pc = "returned" =>
       /\ Structured => Field("movie_titles") = JList(<<>>)
       /\ JTruthy(Field("movie_titles")) => NoStructure /\ Field("keywords") = JList(<<>>)
       /\ ~Structured /\ ~JTruthy(Field("movie_titles")) =>
            /\ NoStructure
            /\ Field("movie_titles") = JList(<<>>)
            /\ Field("keywords") =
                 (IF /\ pq.second.kind = "text" /\ pq.second.text # None
                     /\ JsonLoads(TextOf(pq.second)).ok
                     /\ JsonLoads(TextOf(pq.second)).val.t = "dict"
                     /\ DictGet(JsonLoads(TextOf(pq.second)).val.v, "movie_titles") = JList(<<>>)
                  THEN JList(<<>>)
                  ELSE JList(<<JStr(pq.query)>>))

C23_Witness ==
    /\ pq.pc = "returned"
    /\ pq.second.text = Some(TextEmptyTitles)
    /\ Field("movie_titles") = JList(<<>>)
    /\ Field("keywords") = JList(<<>>)
    /\ NoStructure


(***************************************************************************)
(* Further properties of run_search (Spec).                                *)
(***************************************************************************)
\* the call in frame f has made no call of the enrichment path
NoEnrichment(f) ==
    /\ f.llm = "none" /\ f.titles = <<>>
    /\ f.cached = <<>> /\ f.fetched = <<>>
    /\ f.dbout = "none" /\ f.vecout = "none"

\* C24: enrichment gating.  Every call of run_search queries the Vector Index with
\* the raw query text before anything else; unless enrich_from_tmdb is set it calls
\* neither the LLM nor the Metadata Provider and writes to neither store, so that a
\* call without the flag returns an empty tmdb_results and leaves the Catalog Store
\* and the Vector Index as it found them.
C24_EnrichmentGating ==
    \A w \in Workers :
       LET f == rs[w]
       IN  /\ f.pc \notin {"idle", "vsearch"} =>
                /\ f.vsearch # "none"
                /\ f.hits = (IF f.vsearch = "ok" THEN NearVector(f.query, f.vec0) ELSE <<>>)
           /\ f.pc \in {"idle", "vsearch", "lookup"} => NoEnrichment(f)
           /\ f.pc # "idle" /\ ~f.enrich =>
                /\ NoEnrichment(f)
                /\ f.tmdb = <<>>
                /\ catalog = f.cat0
                /\ vindex = f.vec0

C24_Witness ==
    \E w \in Workers :
       /\ rs[w].pc = "done"
       /\ ~rs[w].enrich
       /\ rs[w].wres # <<>>
       /\ rs[w].tmdb = <<>>
       /\ catalog = rs[w].cat0 /\ catalog # {}
       /\ vindex = rs[w].vec0


\* the config has a year bound, and the record's release year is outside the bounds
OutOfBounds(m, cfg) ==
    /\ Truthy(cfg.start_year) \/ Truthy(cfg.end_year)
    /\ ~KeepMovie(m, cfg)

\* in a call that has returned, no entry of the vector-sourced list is outside the
\* year bounds, and every record a title resolved to is in tmdb_results
C25_State ==
    Call.pc = "done" =>
       /\ \A k \in 1..Len(Call.wres) : ~OutOfBounds(Call.wres[k], Call.cfg)
       /\ Call.enrich =>
            \A k \in 1..Len(Call.titles) :
               ResolutionOf(Call, k) # <<>> =>
                  \E j \in 1..Len(Call.tmdb) : Call.tmdb[j] = ResolutionOf(Call, k)[1]

\* no step of a call changes the SearchConfig the call was given
C25_Step ==
    \A w \in Workers :
       rs[w].pc # "idle" /\ rs'[w].pc # "idle" => rs'[w].cfg = rs[w].cfg

\* C25: year filter scope.  The year bounds of SearchConfig restrict the
\* vector-sourced list only: every record resolved on the provider path is returned
\* in tmdb_results whatever its release year, and run_search never modifies the
\* SearchConfig it was given.
C25_YearFilterScope == []C25_State /\ [][C25_Step]_vars

\* a call with year bounds 2000 to 2010 that returned a provider record of 1998
C25_Witness ==
    /\ Call.pc = "done" /\ Call.enrich
    /\ Call.cfg = Years2000To2010
    /\ \E j \in 1..Len(Call.tmdb) :
         /\ OutOfBounds(Call.tmdb[j], Call.cfg)
         /\ PySlice(Call.tmdb[j].release_date[1], 4) = <<"1", "9", "9", "8">>


\* the call has handed its titles to _check_and_fetch_movies
TitlesHanded(f) == f.pc \in {"resolve", "save_db", "save_vec"} \/ f.i > 0

\* C26: enrichment title fallback.  The list of titles handed to the cache-aside step
\* is never empty: it is the list the LLM generated when use_gemini is set and that
\* list is not empty, and the one-element list of the search query when use_gemini is
\* unset (the LLM is then not called), when the LLM returned no titles, or when the
\* LLM call raised.
C26_TitleFallback ==
    \A w \in Workers :
       LET f == rs[w]
       IN  TitlesHanded(f) =>
              /\ f.titles # <<>>
              /\ f.llm \in (IF f.gemini THEN {"list", "empty", "raised"} ELSE {"skipped"})
              /\ IF f.llm = "list"
                 THEN f.titles \in TitleLists
                 ELSE f.titles = <<f.query>>

\* a call whose LLM returned no titles and that resolved the query text instead
C26_Witness ==
    /\ Call.pc = "done" /\ Call.enrich /\ Call.gemini
    /\ Call.llm = "empty"
    /\ Call.titles = <<Call.query>>
    /\ Len(Call.fetched) + Len(Call.cached) = 1


(***************************************************************************)
(* Further properties of the event bus and the ingestion handlers (Spec).  *)
(***************************************************************************)
\* how many times a handler has been invoked since the top-level publish
Invocations(handler) ==
    Cardinality({j \in 1..Len(bus.log) : bus.log[j].handler = handler})

\* how many events of a topic have been published since the top-level publish
Publications(topic) ==
    Cardinality({k \in 1..Len(bus.pubs) : bus.pubs[k].topic = topic})

\* publish('start_ingestion') has returned on a bus where subscribe_to_event_bus ran
\* twice, and each fetch stage got a page from the provider
IngestedTwice ==
    /\ bus.state = "returned"
    /\ bus.pubs[1].topic = "start_ingestion"
    /\ \A t \in DOMAIN handlers : Len(handlers[t]) = 2
    /\ Publications("movies_fetched_for_ingestion") = 2

\* C27: subscription multiplicity.  subscribe keeps duplicates, so with every handler
\* subscribed twice one publish of start_ingestion runs the fetch stage 2 times, the
\* catalog-persist stage 4 times and the vector-upsert stage 8 times.
C27_Multiplicity ==
    IngestedTwice =>
       /\ Invocations("handle_start_ingestion_event") = 2
       /\ Invocations("handle_movies_fetched_event") = 4
       /\ Invocations("handle_sqlite_data_saved_event") = 8


\* the log entries of handlers that raised something other than TypeError, and of
\* handlers whose body raised TypeError after the call itself had bound its arguments
Escaped == {j \in 1..Len(bus.log) : bus.log[j].result \in {"raised", "exited"}}
BodyTypeErrors ==
    {j \in 1..Len(bus.log) :
        /\ bus.log[j].result = "type_error"
        /\ Accepts(bus.log[j].handler, bus.log[j].kwargs)}

Enriching(f) == ~NoEnrichment(f)

\* the movies the call was the first to persist
FirstPersistedBy(f) ==
    {f.newly[k].id : k \in 1..Len(f.newly)} \ CatalogIds(f.cat0)

\* C29: search before enrich.  Within one call the Vector Index search and the catalog
\* lookup of its hits are over before the enrichment starts, and until then the call
\* has written nothing; so weaviate_results is made of rows the Catalog Store held
\* before the call's own writes, found through what the Vector Index held then, and
\* has no movie that the call itself was the first to persist.
C29_SearchBeforeEnrich ==
    \A w \in Workers :
       LET f == rs[w]
       IN  /\ Enriching(f) =>
                /\ f.vsearch # "none"
                /\ f.hits # <<>> => f.lookup # "none"
           /\ f.pc \in {"vsearch", "lookup"} => catalog = f.cat0 /\ vindex = f.vec0
           /\ f.pc # "idle" =>
                \A k \in 1..Len(f.wres) :
                   /\ \E r \in f.cat0 :
                         /\ r.title = f.wres[k].title
                         /\ f.vec0[r.tmdb_id] > 0
                         /\ r.tmdb_id \notin FirstPersistedBy(f)

\* a call that found nothing, then persisted a movie the same search would now find
C29_Witness ==
    /\ Call.pc = "done" /\ Call.vsearch = "ok"
    /\ Call.wres = <<>>
    /\ Call.vecout = "ok"
    /\ FirstPersistedBy(Call) # {}
    /\ \E k \in 1..Len(NearVector(Call.query, vindex)) :
          NearVector(Call.query, vindex)[k].movie_id \in FirstPersistedBy(Call)


(***************************************************************************)
(* The shape of weaviate_results (SpecSearch).                             *)
(***************************************************************************)
\* the hits of a call whose movie id has a row, in the Catalog Store as the call found
\* it, that passes the year filter
KeptHits(f) ==
    SelectSeq(f.hits, LAMBDA h : \E r \in f.cat0 : r.tmdb_id = h.movie_id
                                                   /\ RefPasses(r, f.cfg))

====
